---- MODULE Spec2Model ----
(***************************************************************************)
(* State-machine model of globus.py: the endpoint table, the remote        *)
(* transfer service seen through its command line, the scratch directory,  *)
(* and the Python functions get_endpoint_uuid, wait_tasklist,              *)
(* transfer_async, wait, transfer, activate and the directory functions.   *)
(*                                                                         *)
(* Every remote command is a step of the calling function; what the        *)
(* command answers (exit code, output) is chosen by the environment.       *)
(***************************************************************************)
EXTENDS Naturals, Sequences, FiniteSets, TLC

VARIABLES
    mode,        \* which function of the module the client program has called
    nproc,       \* number of callers the client program runs
    endpoints,   \* globus.py:24-25  the table loaded from globus-endpoints.yaml
    tasks,       \* remote: status of each task accepted so far, indexed by order of acceptance
    writeLog,    \* scratch directory ($TMPDIR): the sequence of file writes
    pc,          \* per caller: position in the function it runs
    args,        \* per caller: arguments of the call
    uuids,       \* per caller: transfer's src_ep_uuid, dst_ep_uuid
    batch,       \* per caller: transfer's batch_file after lines 325-331
    attempt,     \* per caller: number of completed iterations of `for _ in range(retry)`
    task,        \* per caller: task id held in task_data ("" before the first submission)
    result,      \* per caller: value returned ("none" while running or after a raise)
    err,         \* per caller: exception that left the function ("none" if none)
    nList,       \* per caller: task-listing queries issued by the running wait_tasklist
                 \* (counted up to MaxList)
    lastCount,   \* per caller: len(tasklist(...)) in the latest loop test of wait_tasklist
                 \* (a temporary: 0 outside wait_tasklist and its return)
    submitted,   \* per caller: the submissions issued, in order
    waits,       \* per caller: the wait() calls finished, in order
    resolveLog,  \* the get_endpoint_uuid calls made directly by the client, in order
    tree,        \* remote: the directories that exist on the endpoint
    activated,   \* remote: whether the endpoint is activated
    pathpart,    \* per caller: makedirs' pathpart
    idx,         \* per caller: makedirs' loop index i
    ncall,       \* per caller: makedirs calls started
    snap,        \* per caller: the remote tree when its latest makedirs call started
    remoteLog,   \* the remote endpoint commands issued (activate, is-activated, ls, mkdir),
                 \* in order;
                 \* fault: the command failed although the remote state allowed it;
                 \* names: what listdir returned (ls only)
    exitcode     \* per caller: <<status>> once its process has exited (command line only)

vars == <<mode, nproc, endpoints, tasks, writeLog, pc, args, uuids,
          batch, attempt, task, result, err, nList, lastCount, submitted, waits,
          resolveLog, tree, activated, pathpart, idx, ncall, snap, remoteLog,
          exitcode>>

(***************************************************************************)
(* Bounds of the model.                                                    *)
(***************************************************************************)
MaxRetry == 3
MaxList == 2
MaxResolve == 3

(***************************************************************************)
(* Program constants.                                                      *)
(***************************************************************************)
DefaultCeiling == 80

Procs == {1, 2}
ProcName == <<"p1", "p2">>

EndpointNames == {"site-a", "site-b", "site-c"}
EndpointTables ==
    { [n \in {"site-a", "site-b"} |-> IF n = "site-a" THEN "uuid-1111" ELSE "uuid-2222"],
      [n \in {"site-a"} |-> "uuid-1111"] }

TaskIds == <<"t1", "t2", "t3", "t4", "t5", "t6", "t7", "t8">>
Terminal == {"SUCCEEDED", "FAILED", "INACTIVE"}
\* remote: how many ACTIVE tasks of other callers a task-listing query can find
OtherLevels == {0, DefaultCeiling - 1, DefaultCeiling, DefaultCeiling + 1}
Ceilings == {DefaultCeiling, DefaultCeiling + 1}

tmpdir == "TMPDIR"
NoBatch == <<>>
UserBatch == <<"user.filelist">>
\* the (src_paths, dst_paths) a caller passes: equal and unequal lengths
PathPairs ==
    { << <<>>, <<>> >>,
      << <<"/x/f1.nc">>, <<"/y/f1.nc">> >>,
      << <<"/x/f1.nc", "/x/f2.nc">>, <<"/y/f1.nc", "/y/f2.nc">> >>,
      << <<"/x/f1.nc", "/x/f2.nc">>, <<"/y/f1.nc">> >>,
      << <<"/x/f1.nc">>, <<"/y/f1.nc", "/y/f2.nc">> >> }

NoArgs == [op |-> "none"]

(***************************************************************************)
(* Pure helpers.                                                           *)
(***************************************************************************)
Min(a, b) == IF a < b THEN a ELSE b

get_endpoint_uuid_default(endpoint) ==
    IF endpoint \in DOMAIN endpoints
    THEN [ok |-> TRUE, val |-> endpoints[endpoint]]
    ELSE [ok |-> TRUE, val |-> "uuid-0000"]

get_endpoint_uuid_first(endpoint) ==
    IF endpoint \in DOMAIN endpoints
    THEN [ok |-> TRUE, val |-> endpoints["site-a"]]
    ELSE [ok |-> FALSE, val |-> "ValueError"]

\* globus.py:27-32
get_endpoint_uuid(endpoint) ==
    IF endpoint \in DOMAIN endpoints
    THEN [ok |-> TRUE, val |-> endpoints[endpoint]]
    ELSE [ok |-> FALSE, val |-> "ValueError"]

\* zip(src_paths, dst_paths): pairs up to the shorter list
Zip(s, d) == [i \in 1..Min(Len(s), Len(d)) |-> <<s[i], d[i]>>]

RECURSIVE WriteLines(_)
\* globus.py:330-331  fid.write(f'{src_path} {dst_path}\n') for each pair
WriteLines(pairs) ==
    IF pairs = <<>> THEN <<>>
    ELSE <<Head(pairs)[1], " ", Head(pairs)[2], "\n">> \o WriteLines(Tail(pairs))

ManifestText_swapped(src_paths, dst_paths) == WriteLines(Zip(dst_paths, src_paths))

\* globus.py:329-331  the text of the manifest transfer() writes
ManifestText(src_paths, dst_paths) == WriteLines(Zip(src_paths, dst_paths))

RECURSIVE SplitLines(_, _)
\* the lines of a text file: the pieces ended by "\n" (cur is the piece being read)
SplitLines(text, cur) ==
    IF text = <<>> THEN (IF cur = <<>> THEN <<>> ELSE <<cur>>)
    ELSE IF Head(text) = "\n" THEN <<cur>> \o SplitLines(Tail(text), <<>>)
    ELSE SplitLines(Tail(text), Append(cur, Head(text)))

\* tempfile.mkstemp(suffix='.filelist', prefix='globus.batch.', dir=TMPDIR): a fresh name
MkstempName(p) == <<tmpdir, "/", "globus.batch.", ProcName[p], ".filelist">>
\* f'{tmpdir}/{task_id}.json'
SnapshotName(task_id) == <<tmpdir, "/", task_id, ".json">>
\* f'{tmpdir}/{task_id}.failure.json'
FailureName(task_id) == <<tmpdir, "/", task_id, ".failure.json">>

FileNames == {writeLog[i].name : i \in 1..Len(writeLog)}
WritesOf(name) == {i \in 1..Len(writeLog) : writeLog[i].name = name}

\* remote: number of tasks in ACTIVE state
OwnActive == Cardinality({i \in 1..Len(tasks) : tasks[i] = "ACTIVE"})
ActiveCount(others) == others + OwnActive

(***************************************************************************)
(* Path strings are sequences of characters.                               *)
(***************************************************************************)
Root == <<"/">>

RECURSIVE SplitSlash(_, _)
\* str.split('/'): the pieces between slashes (cur is the piece being read)
SplitSlash(str, cur) ==
    IF str = <<>> THEN <<cur>>
    ELSE IF Head(str) = "/" THEN <<cur>> \o SplitSlash(Tail(str), <<>>)
    ELSE SplitSlash(Tail(str), Append(cur, Head(str)))

RECURSIVE JoinSlash(_)
\* '/'.join(comps)
JoinSlash(comps) ==
    IF comps = <<>> THEN <<>>
    ELSE IF Len(comps) = 1 THEN comps[1]
    ELSE comps[1] \o <<"/">> \o JoinSlash(Tail(comps))

StartsWith(str, pre) == Len(str) >= Len(pre) /\ SubSeq(str, 1, Len(pre)) = pre

\* posixpath.normpath: the number of leading slashes kept (2 for exactly two)
InitialSlashes(path) ==
    IF StartsWith(path, <<"/", "/">>) /\ ~StartsWith(path, <<"/", "/", "/">>) THEN 2
    ELSE IF StartsWith(path, <<"/">>) THEN 1
    ELSE 0

RECURSIVE NormComps(_, _, _)
\* posixpath.normpath: the loop over comps that drops '', '.' and resolves '..'
NormComps(comps, new, initial) ==
    IF comps = <<>> THEN new
    ELSE LET comp == Head(comps)
             dotdot == <<".", ".">>
         IN  IF comp = <<>> \/ comp = <<".">>
             THEN NormComps(Tail(comps), new, initial)
             ELSE IF comp # dotdot
                     \/ (initial = 0 /\ new = <<>>)
                     \/ (new # <<>> /\ new[Len(new)] = dotdot)
             THEN NormComps(Tail(comps), Append(new, comp), initial)
             ELSE IF new # <<>>
             THEN NormComps(Tail(comps), SubSeq(new, 1, Len(new) - 1), initial)
             ELSE NormComps(Tail(comps), new, initial)

Slashes(n) == [i \in 1..n |-> "/"]

\* globus.py:154  os.path.normpath(path)
normpath(path) ==
    IF path = <<>> THEN <<".">>
    ELSE LET initial == InitialSlashes(path)
             joined == JoinSlash(NormComps(SplitSlash(path, <<>>), <<>>, initial))
             out == Slashes(initial) \o joined
         IN  IF out = <<>> THEN <<".">> ELSE out

RECURSIVE JoinFrom(_, _)
\* posixpath.join: path extended by the components ps in turn
JoinFrom(path, ps) ==
    IF ps = <<>> THEN path
    ELSE LET b == Head(ps)
         IN  IF StartsWith(b, <<"/">>) THEN JoinFrom(b, Tail(ps))
             ELSE IF path = <<>> \/ path[Len(path)] = "/"
             THEN JoinFrom(path \o b, Tail(ps))
             ELSE JoinFrom(path \o <<"/">> \o b, Tail(ps))

\* globus.py:158-160  os.path.join(*parts)
PathJoin(parts) == JoinFrom(Head(parts), Tail(parts))

\* globus.py:154-156  pathpart, with pathpart[0] = '/' for an absolute path
PathPart(path) ==
    LET parts == SplitSlash(normpath(path), <<>>)
    IN  IF path[1] = "/" THEN [parts EXCEPT ![1] = <<"/">>] ELSE parts

(***************************************************************************)
(* Initial state: module loaded, nothing called yet; the client program    *)
(* runs n callers.                                                         *)
(***************************************************************************)
InitFor(n) ==
    /\ mode = "none"
    /\ nproc = n
    /\ endpoints \in EndpointTables
    /\ tasks = <<>>
    /\ writeLog = <<>>
    /\ pc = [p \in Procs |-> "idle"]
    /\ args = [p \in Procs |-> NoArgs]
    /\ uuids = [p \in Procs |-> <<>>]
    /\ batch = [p \in Procs |-> NoBatch]
    /\ attempt = [p \in Procs |-> 0]
    /\ task = [p \in Procs |-> ""]
    /\ result = [p \in Procs |-> "none"]
    /\ err = [p \in Procs |-> "none"]
    /\ nList = [p \in Procs |-> 0]
    /\ lastCount = [p \in Procs |-> 0]
    /\ submitted = [p \in Procs |-> <<>>]
    /\ waits = [p \in Procs |-> <<>>]
    /\ resolveLog = <<>>
    /\ tree = {Root}
    /\ activated = TRUE
    /\ pathpart = [p \in Procs |-> <<>>]
    /\ idx = [p \in Procs |-> 0]
    /\ ncall = [p \in Procs |-> 0]
    /\ snap = [p \in Procs |-> {}]
    /\ remoteLog = <<>>
    /\ exitcode = [p \in Procs |-> <<>>]

\* a client program with one caller
Init == InitFor(1)

dirVars == <<tree, activated, pathpart, idx, ncall, snap, remoteLog>>
remoteVars == <<tasks>>
callVars == <<uuids, batch, attempt, task, nList, lastCount, submitted, waits>>

\* an exception leaves the running function
Raise(p, e) ==
    /\ pc' = [pc EXCEPT ![p] = "raised"]
    /\ err' = [err EXCEPT ![p] = e]
    /\ UNCHANGED result

\* the running function returns v
Return(p, v) ==
    /\ pc' = [pc EXCEPT ![p] = "done"]
    /\ result' = [result EXCEPT ![p] = v]
    /\ UNCHANGED err

Goto(p, l) ==
    /\ pc' = [pc EXCEPT ![p] = l]
    /\ UNCHANGED <<result, err>>

(***************************************************************************)
(* wait_tasklist and tasklist.                                             *)
(***************************************************************************)
\* globus.py:241  while len(tasklist(status_filter='ACTIVE')) > N
ThrottleBlocks(count, N) == count > N

\* what `globus task list --filter-status=ACTIVE --format=json` can print
ListResponses == {"json", "garbage"}

\* globus.py:233 (N=80) and 334 (wait_tasklist() called with the default)
Ceiling(p) == IF args[p].op = "transfer" THEN DefaultCeiling ELSE args[p].N

\* where wait_tasklist returns to
AfterThrottle(p) == IF args[p].op = "transfer" THEN "submit" ELSE "return"

\* the client calls wait_tasklist(N) directly
WaitTasklistCall(p, N) ==
    /\ mode = "none"
    /\ p <= nproc
    /\ pc[p] = "idle"
    /\ mode' = "wait_tasklist"
    /\ args' = [args EXCEPT ![p] = [op |-> "wait_tasklist", N |-> N]]
    /\ Goto(p, "throttle")
    /\ UNCHANGED <<nproc, exitcode, endpoints, remoteVars, writeLog, callVars, resolveLog, dirVars>>

TasklistLen_cached(p, others) ==
    IF nList[p] > 0 THEN lastCount[p] ELSE ActiveCount(others)

\* globus.py:241  len(tasklist(status_filter='ACTIVE')), asked anew in every test
TasklistLen(p, others) == ActiveCount(others)

\* globus.py:224-230 and 241: one task-listing query and the loop test on it,
\* the other users of the service holding one of `levels` ACTIVE tasks
TasklistQueryWith(p, levels) ==
    /\ pc[p] = "throttle"
    /\ nList' = [nList EXCEPT ![p] = Min(@ + 1, MaxList)]
    /\ \E r \in ListResponses, others \in levels :
         IF r = "garbage"
         THEN /\ Raise(p, "JSONDecodeError")
              /\ UNCHANGED lastCount
         ELSE /\ lastCount' = [lastCount EXCEPT ![p] = TasklistLen(p, others)]
              /\ IF ThrottleBlocks(TasklistLen(p, others), Ceiling(p))
                 THEN Goto(p, "throttle_sleep")
                 ELSE Goto(p, AfterThrottle(p))
    /\ UNCHANGED <<mode, nproc, exitcode, endpoints, remoteVars, writeLog, args, uuids, batch,
                   attempt, task, submitted, waits, resolveLog, dirVars>>

\* the query when other users' tasks start and end at any time
TasklistQuery(p) == TasklistQueryWith(p, OtherLevels)

\* globus.py:242  sleep(10)
ThrottleSleep(p) ==
    /\ pc[p] = "throttle_sleep"
    /\ Goto(p, "throttle")
    /\ UNCHANGED <<mode, nproc, exitcode, endpoints, remoteVars, writeLog, args, callVars, resolveLog, dirVars>>

\* wait_tasklist called directly returns None
WaitTasklistReturn(p) ==
    /\ pc[p] = "return"
    /\ Return(p, "None")
    /\ UNCHANGED <<mode, nproc, exitcode, endpoints, remoteVars, writeLog, args, callVars, resolveLog, dirVars>>

(***************************************************************************)
(* transfer_async.                                                         *)
(***************************************************************************)
\* what `globus transfer ... --format json` can answer: exit code and output
SubmitResponses ==
    { [rc |-> 0, body |-> "task"],        \* accepted: JSON with a task_id
      [rc |-> 0, body |-> "no_task_id"],  \* JSON without a task_id
      [rc |-> 0, body |-> "garbage"],     \* not JSON
      [rc |-> 1, body |-> "garbage"],
      [rc |-> 1, body |-> "error_json"] } \* rejected, with a JSON error message

SubmitOutcome_get(resp) ==
    IF resp.rc # 0 THEN "OSError"
    ELSE IF resp.body = "garbage" THEN "JSONDecodeError"
    ELSE "task"

\* globus.py:195-201  what transfer_async does with the answer
SubmitOutcome(resp) ==
    IF resp.rc # 0 THEN "OSError"
    ELSE IF resp.body = "garbage" THEN "JSONDecodeError"
    ELSE IF resp.body = "no_task_id" THEN "KeyError"
    ELSE "task"

TaskData_first(p, id) == IF task[p] = "" THEN id ELSE task[p]

\* globus.py:335-336  task_data = transfer_async(...): the task wait is given
TaskData(p, id) == id

AfterSubmit_async(p) == "backoff"

\* globus.py:335-336  what transfer does with the task transfer_async returned:
\* it calls wait on it
AfterSubmit(p) == "wait"

\* globus.py:183-207  transfer_async(src, dst, batch_file), called at line 335
TransferAsync(p) ==
    /\ pc[p] = "submit"
    /\ Len(tasks) < Len(TaskIds)
    /\ \E resp \in SubmitResponses :
         LET out == SubmitOutcome(resp)
             id == TaskIds[Len(tasks) + 1]
             rec == [src |-> uuids[p][1], dst |-> uuids[p][2], batch |-> batch[p],
                     resp |-> resp, ret |-> IF out = "task" THEN id ELSE out]
         IN  /\ submitted' = [submitted EXCEPT ![p] = Append(@, rec)]
             /\ tasks' = IF resp.body = "task" THEN Append(tasks, "ACTIVE") ELSE tasks
             /\ IF out = "task"
                THEN /\ task' = [task EXCEPT ![p] = TaskData(p, id)]
                     /\ writeLog' = Append(writeLog,
                                      [name |-> SnapshotName(id), content |-> <<id>>])
                     /\ Goto(p, AfterSubmit(p))
                ELSE /\ Raise(p, out)
                     /\ UNCHANGED <<task, writeLog>>
    /\ lastCount' = [lastCount EXCEPT ![p] = 0]
    /\ UNCHANGED <<mode, nproc, exitcode, endpoints, args, uuids, batch, attempt,
                   nList, waits, resolveLog, dirVars>>

(***************************************************************************)
(* wait.                                                                   *)
(***************************************************************************)
\* what `globus task wait --format json <task_id>` can answer for a task in
\* status s: it does not answer while the task is ACTIVE, except by failing
PollResponses(s) ==
    { [exec |-> "no", rc |-> 1, body |-> "garbage"],  \* the command cannot be run
      [exec |-> "yes", rc |-> 1, body |-> "garbage"] }
    \cup (IF s \in Terminal
          THEN { [exec |-> "yes", rc |-> 0, body |-> s],
                 [exec |-> "yes", rc |-> 1, body |-> s],
                 [exec |-> "yes", rc |-> 0, body |-> "garbage"],
                 [exec |-> "yes", rc |-> 0, body |-> "no_status"] }
          ELSE {})

WaitOutcome_failed_only(resp) ==
    IF resp.exec = "no" THEN "OSError"
    ELSE IF resp.rc # 0 THEN "OSError"
    ELSE IF resp.body = "garbage" THEN "JSONDecodeError"
    ELSE IF resp.body = "no_status" THEN "KeyError"
    ELSE IF resp.body = "FAILED" THEN "False"
    ELSE "True"

WaitOutcome_lenient(resp) ==
    IF resp.exec = "no" THEN "OSError"
    ELSE IF resp.body = "garbage" THEN (IF resp.rc # 0 THEN "OSError" ELSE "JSONDecodeError")
    ELSE IF resp.body = "no_status" THEN "KeyError"
    ELSE IF resp.body # "SUCCEEDED" THEN "False"
    ELSE "True"

\* globus.py:274-293  what wait does with the answer
WaitOutcome(resp) ==
    IF resp.exec = "no" THEN "OSError"
    ELSE IF resp.rc # 0 THEN "OSError"
    ELSE IF resp.body = "garbage" THEN "JSONDecodeError"
    ELSE IF resp.body = "no_status" THEN "KeyError"
    ELSE IF resp.body # "SUCCEEDED" THEN "False"
    ELSE "True"

WaitWrites_failed_only(id, resp, out) ==
    IF out = "False" /\ resp.body = "FAILED"
    THEN <<[name |-> FailureName(id), content |-> <<resp.body>>]>>
    ELSE <<>>

\* globus.py:287-289  the files wait writes for outcome `out` on task `id`
WaitWrites(id, resp, out) ==
    IF out = "False"
    THEN <<[name |-> FailureName(id), content |-> <<resp.body>>]>>
    ELSE <<>>

AfterWait_catch(out) ==
    IF out = "True" THEN "return_true" ELSE "backoff"

\* globus.py:336-338  transfer's use of wait's outcome: return True, sleep and
\* loop, or let the exception through
AfterWait(out) ==
    IF out = "True" THEN "return_true"
    ELSE IF out = "False" THEN "backoff"
    ELSE "raise"

\* index of a task id in the remote's table
TaskIndex(id) == CHOOSE i \in 1..Len(TaskIds) : TaskIds[i] = id

\* globus.py:245-293  wait(task_data), called at line 336, and the branch on it
Wait(p) ==
    /\ pc[p] = "wait"
    /\ \E resp \in PollResponses(tasks[TaskIndex(task[p])]) :
         LET out == WaitOutcome(resp)
         IN  /\ waits' = [waits EXCEPT ![p] =
                            Append(@, [task |-> task[p], resp |-> resp, ret |-> out])]
             /\ writeLog' = writeLog \o WaitWrites(task[p], resp, out)
             /\ IF AfterWait(out) = "return_true" THEN Return(p, "True")
                ELSE IF AfterWait(out) = "backoff" THEN Goto(p, "backoff")
                ELSE Raise(p, out)
    /\ UNCHANGED <<mode, nproc, exitcode, endpoints, remoteVars, args, uuids, batch, attempt,
                   task, nList, lastCount, submitted, resolveLog, dirVars>>

(***************************************************************************)
(* transfer.                                                               *)
(***************************************************************************)
TransferArgs ==
    { [op |-> "transfer", src_ep |-> s, dst_ep |-> d, src_paths |-> pp[1],
       dst_paths |-> pp[2], batch_file |-> b, retry |-> r] :
        s \in EndpointNames, d \in EndpointNames, pp \in PathPairs,
        b \in {NoBatch, UserBatch}, r \in 0..MaxRetry }

UseTempManifest_always(a) == TRUE

\* globus.py:325  if batch_file is None
UseTempManifest(a) == a.batch_file = NoBatch

\* globus.py:322-331  transfer up to the loop: the endpoint lookups and the manifest
TransferStart(p, a) ==
    /\ args' = [args EXCEPT ![p] = a]
    /\ LET s == get_endpoint_uuid(a.src_ep)
           d == get_endpoint_uuid(a.dst_ep)
       IN  IF ~s.ok \/ ~d.ok
           THEN /\ Raise(p, "ValueError")
                /\ UNCHANGED <<uuids, batch, writeLog>>
           ELSE /\ uuids' = [uuids EXCEPT ![p] = <<s.val, d.val>>]
                /\ IF UseTempManifest(a)
                   THEN /\ batch' = [batch EXCEPT ![p] = MkstempName(p)]
                        /\ writeLog' = Append(writeLog,
                               [name |-> MkstempName(p),
                                content |-> ManifestText(a.src_paths, a.dst_paths)])
                   ELSE /\ batch' = [batch EXCEPT ![p] = a.batch_file]
                        /\ UNCHANGED writeLog
                /\ Goto(p, "loop")
    /\ UNCHANGED <<nproc, exitcode, endpoints, remoteVars, attempt, task, nList, lastCount,
                   submitted, waits, resolveLog, dirVars>>

\* globus.py:296  the client calls transfer(src_ep, dst_ep, src_paths, dst_paths,
\* batch_file, retry); a second caller may call while the first one runs
TransferCall(p, a) ==
    /\ mode \in {"none", "transfer"}
    /\ p <= nproc
    /\ pc[p] = "idle"
    /\ mode' = "transfer"
    /\ TransferStart(p, a)

RangeRetry_plus1(retry) == retry + 1

RangeRetry_atleast1(retry) == IF retry = 0 THEN 1 ELSE retry

\* globus.py:333  range(retry): the number of iterations
RangeRetry(retry) == retry

AttemptStart_once(p) == IF attempt[p] = 0 THEN "throttle" ELSE "submit"

\* globus.py:334  every iteration starts with wait_tasklist()
AttemptStart(p) == "throttle"

\* globus.py:333 and 340  the loop test; `return False` when the range is exhausted
Loop(p) ==
    /\ pc[p] = "loop"
    /\ IF attempt[p] < RangeRetry(args[p].retry)
       THEN /\ Goto(p, AttemptStart(p))
            /\ nList' = [nList EXCEPT ![p] = 0]
       ELSE /\ Return(p, "False")
            /\ UNCHANGED nList
    /\ UNCHANGED <<mode, nproc, exitcode, endpoints, remoteVars, writeLog, args, uuids, batch,
                   attempt, task, lastCount, submitted, waits, resolveLog, dirVars>>

\* globus.py:338  sleep(10) after a wait that returned False
Backoff(p) ==
    /\ pc[p] = "backoff"
    /\ attempt' = [attempt EXCEPT ![p] = @ + 1]
    /\ Goto(p, "loop")
    /\ UNCHANGED <<mode, nproc, exitcode, endpoints, remoteVars, writeLog, args, uuids, batch,
                   task, nList, lastCount, submitted, waits, resolveLog, dirVars>>

(***************************************************************************)
(* The command line: main and the __main__ block.                          *)
(***************************************************************************)
RECURSIVE SplitComma(_, _)
\* globus.py:353, 355  str.split(','): the pieces between commas. An option
\* value is its sequence of tokens, a path being one token; cur is the piece
\* being read (the values passed have at most one token between two commas)
SplitComma(str, cur) ==
    IF str = <<>> THEN <<cur>>
    ELSE IF Head(str) = "," THEN <<cur>> \o SplitComma(Tail(str), "")
    ELSE SplitComma(Tail(str), Head(str))

\* globus.py:352-355  a str option value is split, a list is passed on
PathsOption(v) == IF v.isstr THEN SplitComma(v.val, "") ELSE v.val

\* the values of --src-paths and --dst-paths that reach main
NoPathsOption == [isstr |-> FALSE, val |-> <<>>]
SrcPathsOptions ==
    { NoPathsOption, [isstr |-> TRUE, val |-> <<"/x/f1.nc", ",", "/x/f2.nc">>] }
DstPathsOptions == { [isstr |-> TRUE, val |-> <<"/y/f1.nc", ",", "/y/f2.nc">>] }

\* the command lines the client runs
MainArgs ==
    { [src_ep |-> "site-a", dst_ep |-> d, src_paths |-> sp, dst_paths |-> dp,
       batch_file |-> NoBatch, retry |-> r] :
        d \in {"site-a", "site-c"}, sp \in SrcPathsOptions, dp \in DstPathsOptions,
        r \in 0..MaxRetry }

\* globus.py:350-357  main(...): the call of transfer it makes
MainCall(p, c) ==
    /\ mode = "none"
    /\ p <= nproc
    /\ pc[p] = "idle"
    /\ mode' = "main"
    /\ TransferStart(p, [op |-> "transfer", src_ep |-> c.src_ep, dst_ep |-> c.dst_ep,
                         src_paths |-> PathsOption(c.src_paths),
                         dst_paths |-> PathsOption(c.dst_paths),
                         batch_file |-> c.batch_file, retry |-> c.retry])

\* globus.py:342-365  the status the process ends with. main is a click
\* command called with no arguments (line 361), that is in click's standalone
\* mode: when the callback returns, click ends the interpreter with status 0
\* and drops the callback's return value, so `ok` is never assigned and lines
\* 362-365 are not reached. An exception that leaves transfer is not click's:
\* it ends the interpreter with a traceback and status 1.
ExitStatus(how, ret) == IF how = "raised" THEN 1 ELSE 0

\* globus.py:359-365  the process started from the command line ends
ProcessExit(p) ==
    /\ mode = "main"
    /\ pc[p] \in {"done", "raised"}
    /\ exitcode[p] = <<>>
    /\ exitcode' = [exitcode EXCEPT ![p] = <<ExitStatus(pc[p], result[p])>>]
    /\ UNCHANGED <<mode, nproc, endpoints, tasks, writeLog, pc, args, result, err,
                   callVars, resolveLog, dirVars>>

(***************************************************************************)
(* get_endpoint_uuid called by the client.                                 *)
(***************************************************************************)
ResolveCall(name) ==
    /\ mode \in {"none", "resolve"}
    /\ Len(resolveLog) < MaxResolve
    /\ mode' = "resolve"
    /\ resolveLog' = Append(resolveLog, [name |-> name, out |-> get_endpoint_uuid(name)])
    /\ UNCHANGED <<nproc, exitcode, endpoints, remoteVars, writeLog, pc, args, result, err,
                   callVars, dirVars>>

(***************************************************************************)
(* The remote service and its other users.                                 *)
(***************************************************************************)
\* a task accepted by the service leaves ACTIVE
TaskEnds(i, s) ==
    /\ i \in 1..Len(tasks)
    /\ tasks[i] = "ACTIVE"
    /\ tasks' = [tasks EXCEPT ![i] = s]
    /\ UNCHANGED <<mode, nproc, exitcode, endpoints, writeLog, pc, args, result, err,
                   callVars, resolveLog, dirVars>>

(***************************************************************************)
(* isactivated, listdir, mkdir and makedirs, and the endpoint's directory  *)
(* tree.                                                                   *)
(***************************************************************************)
\* bound on the length of the path strings passed to makedirs
MaxPathLen == 4
PathChars == {"/", "a", "."}

RECURSIVE StringsUpTo(_)
StringsUpTo(n) ==
    IF n = 0 THEN {<<>>}
    ELSE LET shorter == StringsUpTo(n - 1)
         IN  shorter \cup {Append(str, c) : str \in {x \in shorter : Len(x) = n - 1},
                                            c \in PathChars}

\* the absolute paths a caller passes to makedirs
AbsolutePaths == {str \in StringsUpTo(MaxPathLen) : str # <<>> /\ str[1] = "/"}

\* remote: the directory a path string names (empty pieces dropped)
RemoteDir(path) ==
    <<"/">> \o JoinSlash(SelectSeq(SplitSlash(path, <<>>), LAMBDA c : c # <<>>))
\* remote: the pieces of a directory's name, and its parent
Pieces(dir) == SelectSeq(SplitSlash(dir, <<>>), LAMBDA c : c # <<>>)
ParentDir(dir) ==
    IF Pieces(dir) = <<>> THEN Root
    ELSE <<"/">> \o JoinSlash(SubSeq(Pieces(dir), 1, Len(Pieces(dir)) - 1))
\* remote: the names `globus ls` lists for a directory
Entries(dir) ==
    {Pieces(d)[Len(Pieces(d))] : d \in {x \in tree : x # Root /\ ParentDir(x) = dir}}

\* directories other users of the endpoint may have created beforehand
OtherDirs == { <<"/", "a">>, <<"/", "a", "/", "a">> }

\* remote, before the client's first makedirs call: another user creates a directory
OtherMkdir(d) ==
    /\ mode \in {"none", "dirs"}
    /\ \A p \in Procs : ncall[p] = 0
    /\ d \notin tree
    /\ ParentDir(d) \in tree
    /\ mode' = "dirs"
    /\ tree' = tree \cup {d}
    /\ UNCHANGED <<nproc, exitcode, endpoints, tasks, writeLog, pc, args, result, err, callVars,
                   resolveLog, activated, pathpart, idx, ncall, snap, remoteLog>>

\* remote, before the client's first makedirs call: the activation has expired
ActivationExpires ==
    /\ mode \in {"none", "dirs"}
    /\ \A p \in Procs : ncall[p] = 0
    /\ activated
    /\ mode' = "dirs"
    /\ activated' = FALSE
    /\ UNCHANGED <<nproc, exitcode, endpoints, tasks, writeLog, pc, args, result, err, callVars,
                   resolveLog, tree, pathpart, idx, ncall, snap, remoteLog>>

\* the exit codes `globus endpoint is-activated` can give now
IsActivatedCodes == (IF activated THEN {0} ELSE {1}) \cup {2, 3}

\* globus.py:63-72  isactivated's outcome for an exit code
IsActivatedOutcome(rc) ==
    IF rc = 0 THEN "True"
    ELSE IF rc = 1 THEN "False"
    ELSE IF rc = 2 THEN "OSError"
    ELSE "ValueError"

ActivationGuard_lenient(rc) ==
    IF rc \in {0, 1} THEN "go" ELSE IsActivatedOutcome(rc)

\* globus.py:105-106 and 128-129  `if not isactivated(endpoint): raise ValueError`
ActivationGuard(rc) ==
    IF IsActivatedOutcome(rc) = "True" THEN "go"
    ELSE IF IsActivatedOutcome(rc) = "False" THEN "ValueError"
    ELSE IsActivatedOutcome(rc)

MakedirsArgs ==
    { [op |-> "makedirs", endpoint |-> e, path |-> str] :
        e \in {"site-a", "site-c"}, str \in AbsolutePaths }

\* globus.py:152-156  makedirs up to the loop (a fresh call or a repeated one)
MakedirsStart(p, a) ==
    /\ args' = [args EXCEPT ![p] = a]
    /\ ncall' = [ncall EXCEPT ![p] = @ + 1]
    /\ snap' = [snap EXCEPT ![p] = tree]
    /\ IF get_endpoint_uuid(a.endpoint).ok
       THEN /\ pathpart' = [pathpart EXCEPT ![p] = PathPart(a.path)]
            /\ idx' = [idx EXCEPT ![p] = 1]
            /\ pc' = [pc EXCEPT ![p] = "md_loop"]
            /\ err' = [err EXCEPT ![p] = "none"]
       ELSE /\ pc' = [pc EXCEPT ![p] = "raised"]
            /\ err' = [err EXCEPT ![p] = "ValueError"]
            /\ UNCHANGED <<pathpart, idx>>
    /\ result' = [result EXCEPT ![p] = "none"]

\* the client calls makedirs(endpoint, path)
MakedirsCall(p, a) ==
    /\ mode \in {"none", "dirs"}
    /\ p <= nproc
    /\ pc[p] = "idle"
    /\ mode' = "dirs"
    /\ MakedirsStart(p, a)
    /\ UNCHANGED <<nproc, exitcode, endpoints, tasks, writeLog, callVars, resolveLog, tree,
                   activated, remoteLog>>

\* the client calls makedirs again with the same arguments, right after the
\* first call ended
MakedirsAgain(p) ==
    /\ args[p].op = "makedirs"
    /\ pc[p] \in {"done", "raised"}
    /\ ncall[p] = 1
    /\ MakedirsStart(p, args[p])
    /\ UNCHANGED <<mode, nproc, exitcode, endpoints, tasks, writeLog, callVars, resolveLog, tree,
                   activated, remoteLog>>

\* globus.py:157  for i in range(1, len(pathpart))
MdLoop(p) ==
    /\ pc[p] = "md_loop"
    /\ IF idx[p] < Len(pathpart[p])
       THEN Goto(p, "md_list_check")
       ELSE Return(p, "None")
    /\ UNCHANGED <<mode, nproc, exitcode, endpoints, tasks, writeLog, args, callVars, resolveLog,
                   dirVars>>

\* globus.py:105-106 (listdir) and 128-129 (mkdir): the activation check
MdActivationCheck(p) ==
    /\ pc[p] \in {"md_list_check", "md_mkdir_check"}
    /\ \E rc \in IsActivatedCodes :
         /\ remoteLog' = Append(remoteLog,
               [by |-> p, call |-> ncall[p], cmd |-> "is-activated", path |-> <<>>,
                rc |-> rc, fault |-> rc \in {2, 3}, names |-> {}])
         /\ IF ActivationGuard(rc) = "go"
            THEN Goto(p, IF pc[p] = "md_list_check" THEN "md_list" ELSE "md_mkdir")
            ELSE Raise(p, ActivationGuard(rc))
    /\ UNCHANGED <<mode, nproc, exitcode, endpoints, tasks, writeLog, args, callVars, resolveLog,
                   tree, activated, pathpart, idx, ncall, snap>>

\* the parent prefix listed and the prefix created in iteration i (Python's
\* pathpart[0:i] and pathpart[0:i+1]; sequences here start at 1)
ParentPrefix(p) == PathJoin(SubSeq(pathpart[p], 1, idx[p]))
SegmentPrefix(p) == PathJoin(SubSeq(pathpart[p], 1, idx[p] + 1))
Segment_parent(p) == pathpart[p][idx[p]]

Segment(p) == pathpart[p][idx[p] + 1]

\* what `globus ls --format json` can answer: the listing when the directory
\* exists, or a failure
LsResponses(dir) ==
    {[rc |-> 1, names |-> {}]}
    \cup (IF dir \in tree THEN {[rc |-> 0, names |-> Entries(dir)]} ELSE {})

\* globus.py:118-123  listdir's result (the names; their order is not used)
ListdirResult(resp) == IF resp.rc # 0 THEN {} ELSE resp.names

SegmentMissing_unless_failed(p, resp) ==
    resp.rc = 0 /\ Segment(p) \notin ListdirResult(resp)

\* globus.py:158  if pathpart[i] not in listdir(endpoint, ...)
SegmentMissing(p, resp) == Segment(p) \notin ListdirResult(resp)

\* globus.py:110-123 and 158  listdir of the parent prefix and the membership test
MdList(p) ==
    /\ pc[p] = "md_list"
    /\ \E resp \in LsResponses(RemoteDir(ParentPrefix(p))) :
         /\ remoteLog' = Append(remoteLog,
               [by |-> p, call |-> ncall[p], cmd |-> "ls", path |-> ParentPrefix(p),
                rc |-> resp.rc,
                fault |-> resp.rc # 0 /\ RemoteDir(ParentPrefix(p)) \in tree,
                names |-> ListdirResult(resp)])
         /\ IF SegmentMissing(p, resp)
            THEN /\ Goto(p, "md_mkdir_check")
                 /\ UNCHANGED idx
            ELSE /\ Goto(p, "md_loop")
                 /\ idx' = [idx EXCEPT ![p] = @ + 1]
    /\ UNCHANGED <<mode, nproc, exitcode, endpoints, tasks, writeLog, args, callVars, resolveLog,
                   tree, activated, pathpart, ncall, snap>>

\* remote: whether `globus mkdir` of dir can succeed
CanCreate(dir) == dir \notin tree /\ ParentDir(dir) \in tree

\* globus.py:133-137 and 160  mkdir of the prefix ending in the segment
MdMkdir(p) ==
    /\ pc[p] = "md_mkdir"
    /\ LET dir == RemoteDir(SegmentPrefix(p))
       IN  \E rc \in (IF CanCreate(dir) THEN {0, 1} ELSE {1}) :
             /\ remoteLog' = Append(remoteLog,
                   [by |-> p, call |-> ncall[p], cmd |-> "mkdir",
                    path |-> SegmentPrefix(p), rc |-> rc,
                    fault |-> rc # 0 /\ CanCreate(dir), names |-> {}])
             /\ IF rc # 0
                THEN /\ Raise(p, "OSError")
                     /\ UNCHANGED <<tree, idx>>
                ELSE /\ tree' = tree \cup {dir}
                     /\ idx' = [idx EXCEPT ![p] = @ + 1]
                     /\ Goto(p, "md_loop")
    /\ UNCHANGED <<mode, nproc, exitcode, endpoints, tasks, writeLog, args, callVars, resolveLog,
                   activated, pathpart, ncall, snap>>

(***************************************************************************)
(* activate.                                                               *)
(***************************************************************************)
\* the exit codes `globus endpoint activate --web --no-browser` can give
\* (0: the activation link was produced; 3 stands for every other code)
ActivateCodes == {0, 1, 2, 3}

ActivateOutcome_zero_ok(rc) ==
    IF rc = 0 THEN "None"
    ELSE IF rc = 1 THEN "OSError"
    ELSE IF rc = 2 THEN "OSError"
    ELSE "ValueError"

\* globus.py:46-51  activate's outcome for an exit code
ActivateOutcome(rc) ==
    IF rc = 1 THEN "OSError"
    ELSE IF rc = 2 THEN "OSError"
    ELSE "ValueError"

ActivateArgs == { [op |-> "activate", endpoint |-> e] : e \in EndpointNames }

\* globus.py:37  the client calls activate(endpoint): the lookup
ActivateCall(p, a) ==
    /\ mode \in {"none", "activate"}
    /\ p <= nproc
    /\ pc[p] = "idle"
    /\ mode' = "activate"
    /\ args' = [args EXCEPT ![p] = a]
    /\ IF get_endpoint_uuid(a.endpoint).ok
       THEN Goto(p, "act_cmd")
       ELSE Raise(p, "ValueError")
    /\ UNCHANGED <<nproc, exitcode, endpoints, tasks, writeLog, callVars, resolveLog,
                   dirVars>>

\* globus.py:39-51  the activation command and the branch on its exit code
ActivateCommand(p) ==
    /\ pc[p] = "act_cmd"
    /\ \E rc \in ActivateCodes :
         /\ remoteLog' = Append(remoteLog,
               [by |-> p, call |-> 0, cmd |-> "activate",
                path |-> <<get_endpoint_uuid(args[p].endpoint).val>>,
                rc |-> rc, fault |-> FALSE, names |-> {}])
         /\ IF ActivateOutcome(rc) \in {"OSError", "ValueError"}
            THEN Raise(p, ActivateOutcome(rc))
            ELSE Return(p, ActivateOutcome(rc))
    /\ UNCHANGED <<mode, nproc, exitcode, endpoints, tasks, writeLog, args, callVars,
                   resolveLog, tree, activated, pathpart, idx, ncall, snap>>

Next ==
    \/ \E p \in Procs, a \in ActivateArgs : ActivateCall(p, a)
    \/ \E p \in Procs : ActivateCommand(p)
    \/ \E p \in Procs, a \in TransferArgs : TransferCall(p, a)
    \/ \E p \in Procs : Loop(p)
    \/ \E p \in Procs, N \in Ceilings : WaitTasklistCall(p, N)
    \/ \E p \in Procs : TasklistQuery(p)
    \/ \E p \in Procs : ThrottleSleep(p)
    \/ \E p \in Procs : WaitTasklistReturn(p)
    \/ \E p \in Procs : TransferAsync(p)
    \/ \E p \in Procs : Wait(p)
    \/ \E p \in Procs : Backoff(p)
    \/ \E p \in Procs, c \in MainArgs : MainCall(p, c)
    \/ \E p \in Procs : ProcessExit(p)
    \/ \E name \in EndpointNames : ResolveCall(name)
    \/ \E i \in 1..Len(TaskIds), s \in Terminal : TaskEnds(i, s)
    \/ \E d \in OtherDirs : OtherMkdir(d)
    \/ ActivationExpires
    \/ \E p \in Procs, a \in MakedirsArgs : MakedirsCall(p, a)
    \/ \E p \in Procs : MakedirsAgain(p)
    \/ \E p \in Procs : MdLoop(p)
    \/ \E p \in Procs : MdActivationCheck(p)
    \/ \E p \in Procs : MdList(p)
    \/ \E p \in Procs : MdMkdir(p)

Spec == Init /\ [][Next]_vars

(***************************************************************************)
(* Two callers at once: two transfer() runs against the same service, or   *)
(* two makedirs() calls on the same path of the same endpoint. The other   *)
(* users of the service hold Backlog ACTIVE tasks throughout; the endpoint *)
(* stays activated and its commands fail only for what the tree holds.     *)
(***************************************************************************)
Backlog == DefaultCeiling

\* the task-listing query when the other users' ACTIVE tasks stay as they are
TasklistQueryBacklog(p) == TasklistQueryWith(p, {Backlog})

\* the transfer() calls the two callers make
RaceArgs ==
    {a \in TransferArgs :
        /\ a.src_ep = "site-a" /\ a.dst_ep = "site-a"
        /\ a.src_paths = <<"/x/f1.nc">> /\ a.dst_paths = <<"/y/f1.nc">>
        /\ a.batch_file = NoBatch /\ a.retry = 1}

\* the makedirs() calls the two callers make: paths already normalised
RaceDirArgs ==
    {a \in MakedirsArgs : a.endpoint = "site-a" /\ normpath(a.path) = a.path}

\* the remote command of this step did not fail for a reason outside the tree
NoFault == ~remoteLog'[Len(remoteLog')].fault

\* the second caller's makedirs call has the first one's arguments
SameCall(a) == \A q \in Procs : args[q].op = "makedirs" => args[q] = a

NextTwo ==
    \/ \E p \in Procs, a \in RaceArgs : TransferCall(p, a)
    \/ \E p \in Procs : Loop(p)
    \/ \E p \in Procs : TasklistQueryBacklog(p)
    \/ \E p \in Procs : ThrottleSleep(p)
    \/ \E p \in Procs : TransferAsync(p)
    \/ \E p \in Procs : Wait(p)
    \/ \E p \in Procs : Backoff(p)
    \/ \E i \in 1..Len(TaskIds), s \in Terminal : TaskEnds(i, s)
    \/ \E d \in OtherDirs : OtherMkdir(d)
    \/ \E p \in Procs, a \in RaceDirArgs : SameCall(a) /\ MakedirsCall(p, a)
    \/ \E p \in Procs : MdLoop(p)
    \/ \E p \in Procs : MdActivationCheck(p) /\ NoFault
    \/ \E p \in Procs : MdList(p) /\ NoFault
    \/ \E p \in Procs : MdMkdir(p) /\ NoFault

SpecTwo == InitFor(2) /\ [][NextTwo]_vars

(***************************************************************************)
(* One transfer() run that keeps running: every step of the caller that    *)
(* can be taken is taken in the end. The service is assumed to end every    *)
(* task it accepted, and to be found at or under the ceiling by one of the *)
(* throttle's queries.                                                     *)
(***************************************************************************)
\* the transfer() calls of this specification
LiveArgs ==
    {a \in TransferArgs :
        a.src_paths = <<"/x/f1.nc">> /\ a.dst_paths = <<"/y/f1.nc">>}

\* globus.py:241  a task-listing query whose count the loop test accepts
ThrottlePasses(p) == TasklistQuery(p) /\ pc'[p] = "submit"

\* globus.py:270-275  `globus task wait` comes back once the task has ended
PollAnswers(p) == Wait(p) /\ tasks[TaskIndex(task[p])] \in Terminal

NextLive ==
    \/ \E p \in Procs, a \in LiveArgs : TransferCall(p, a)
    \/ \E p \in Procs : Loop(p)
    \/ \E p \in Procs : TasklistQuery(p)
    \/ \E p \in Procs : ThrottleSleep(p)
    \/ \E p \in Procs : TransferAsync(p)
    \/ \E p \in Procs : Wait(p)
    \/ \E p \in Procs : Backoff(p)
    \/ \E i \in 1..Len(TaskIds), s \in Terminal : TaskEnds(i, s)

\* the caller's own steps: the interpreter keeps running the function
CallerRuns ==
    \A p \in Procs :
        /\ WF_vars(Loop(p)) /\ WF_vars(TasklistQuery(p)) /\ WF_vars(ThrottleSleep(p))
        /\ WF_vars(TransferAsync(p)) /\ WF_vars(PollAnswers(p)) /\ WF_vars(Backoff(p))
\* the backlog drains: a throttle that keeps asking is let through in the end
BacklogDrains == \A p \in Procs : SF_vars(ThrottlePasses(p))
\* every accepted task leaves ACTIVE
TasksEnd == \A i \in 1..Len(TaskIds) : WF_vars(\E s \in Terminal : TaskEnds(i, s))

SpecLive == Init /\ [][NextLive]_vars /\ CallerRuns /\ BacklogDrains /\ TasksEnd
\* the same without one of the two assumptions on the service
SpecNoDrain == Init /\ [][NextLive]_vars /\ CallerRuns /\ TasksEnd
SpecStuckTask == Init /\ [][NextLive]_vars /\ CallerRuns /\ BacklogDrains

(***************************************************************************)
(* Properties.                                                             *)
(***************************************************************************)
IsTransfer(p) == args[p].op = "transfer"
Booleans == {"True", "False"}
\* a poll that exited 0 and printed a status payload
StatusRead(w) == w.resp.exec = "yes" /\ w.resp.rc = 0 /\ w.resp.body \in Terminal
\* a poll that reported, that way, a terminal status other than SUCCEEDED
EndedUnsuccessful(w) == StatusRead(w) /\ w.resp.body # "SUCCEEDED"
EndedSucceeded(w) == StatusRead(w) /\ w.resp.body = "SUCCEEDED"

\* C1: transfer(retry = N) never submits more than N times; it returns False
\* only after exactly N submissions and N waits that all reported a
\* non-SUCCEEDED terminal status; it returns True exactly when the k-th wait
\* is the first to report SUCCEEDED, after exactly k submissions and k waits,
\* and a wait that reported SUCCEEDED is the last remote call it makes.
C1_RetryCount ==
    \A p \in Procs : IsTransfer(p) =>
        LET N == args[p].retry
            k == Len(submitted[p])
            w == waits[p]
        IN  /\ k <= N
            /\ Len(w) <= k
            /\ pc[p] = "done" => result[p] \in Booleans
            /\ (pc[p] = "done" /\ result[p] = "False") =>
                   /\ k = N
                   /\ Len(w) = N
                   /\ \A j \in 1..N : EndedUnsuccessful(w[j])
            /\ (pc[p] = "done" /\ result[p] = "True") =>
                   /\ 1 <= k
                   /\ Len(w) = k
                   /\ EndedSucceeded(w[k])
                   /\ \A j \in 1..(k - 1) : EndedUnsuccessful(w[j])
            /\ \A j \in 1..Len(w) : EndedSucceeded(w[j]) =>
                   j = k /\ j = Len(w) /\ pc[p] = "done" /\ result[p] = "True"
            /\ (N >= 1 /\ Len(w) = N /\ \A j \in 1..N : EndedUnsuccessful(w[j])) =>
                   pc[p] \in {"backoff", "loop", "done"}
                   /\ (pc[p] = "done" => result[p] = "False")

\* C1 witness: two failed attempts, then the third task succeeds
C1_Witness ==
    \E p \in Procs :
        /\ IsTransfer(p) /\ args[p].retry = 3
        /\ pc[p] = "done" /\ result[p] = "True"
        /\ Len(submitted[p]) = 3 /\ Len(waits[p]) = 3
        /\ EndedUnsuccessful(waits[p][1]) /\ EndedUnsuccessful(waits[p][2])

\* C2: wait_tasklist(ceiling) has not returned while the count the latest
\* task-listing query reported is >= ceiling.
C2_ThrottleStrict ==
    \A p \in Procs : pc[p] \in {"submit", "return"} => lastCount[p] < Ceiling(p)

\* C3: a wait whose poll reported a terminal status returned True iff that
\* status is SUCCEEDED and False otherwise (it did not raise); the scratch
\* directory then holds exactly one write of {task_id}.failure.json for a
\* non-SUCCEEDED status and none for SUCCEEDED; failure snapshots are written
\* by nothing else.
C3_WaitResult ==
    /\ \A p \in Procs : \A j \in 1..Len(waits[p]) :
          LET w == waits[p][j]
              n == Cardinality(WritesOf(FailureName(w.task)))
          IN  /\ StatusRead(w) => w.ret \in Booleans
              /\ w.ret = "True" <=> EndedSucceeded(w)
              /\ w.ret = "False" <=> EndedUnsuccessful(w)
              /\ n = IF w.ret = "False" THEN 1 ELSE 0
    /\ \A i \in 1..Len(writeLog) : \A t \in 1..Len(TaskIds) :
          writeLog[i].name = FailureName(TaskIds[t]) =>
              \E p \in Procs : \E j \in 1..Len(waits[p]) :
                  /\ waits[p][j].task = TaskIds[t]
                  /\ waits[p][j].ret = "False"
                  /\ writeLog[i].content = <<waits[p][j].resp.body>>

\* C3 witness: a wait on an INACTIVE task returned False and left its snapshot
C3_Witness ==
    \E p \in Procs : \E j \in 1..Len(waits[p]) :
        /\ waits[p][j].resp.body = "INACTIVE"
        /\ waits[p][j].ret = "False"
        /\ FailureName(waits[p][j].task) \in FileNames

\* what a caller has done so far, as seen from outside
Footprint(p) == <<Len(submitted[p]), Len(waits[p]), nList[p], attempt[p], result[p]>>
IsException(x) == x \in {"OSError", "JSONDecodeError", "KeyError", "ValueError"}

\* a call that raised is the caller's last, and its exception is transfer's
FaultIsLast ==
    \A p \in Procs : IsTransfer(p) =>
        /\ \A j \in 1..Len(submitted[p]) : IsException(submitted[p][j].ret) =>
              /\ j = Len(submitted[p]) /\ Len(waits[p]) = j - 1
              /\ pc[p] = "raised" /\ err[p] = submitted[p][j].ret
              /\ result[p] = "none"
        /\ \A j \in 1..Len(waits[p]) : IsException(waits[p][j].ret) =>
              /\ j = Len(waits[p]) /\ Len(submitted[p]) = j
              /\ pc[p] = "raised" /\ err[p] = waits[p][j].ret
              /\ result[p] = "none"

\* a transfer that raised does nothing more
RaisedIsFinal ==
    \A p \in Procs : (IsTransfer(p) /\ pc[p] = "raised") =>
        pc'[p] = "raised" /\ Footprint(p)' = Footprint(p)

\* C4: a transfer_async or wait that raised ends transfer at once: the
\* exception is the one transfer raises, no boolean is returned, the faulty
\* call is the last remote call, and from then on the caller issues no
\* task-listing query, submission or poll.
C4_FaultPropagates == []FaultIsLast /\ [][RaisedIsFinal]_vars

\* C4 witness: the second attempt's wait raised with retries left
C4_Witness ==
    \E p \in Procs :
        /\ IsTransfer(p) /\ args[p].retry = 3 /\ pc[p] = "raised"
        /\ Len(waits[p]) = 2 /\ IsException(waits[p][2].ret)

UnknownEndpoint(p) ==
    args[p].src_ep \notin DOMAIN endpoints \/ args[p].dst_ep \notin DOMAIN endpoints

\* C6: transfer() with an endpoint name absent from the table has raised the
\* unknown-endpoint error and has done nothing else: no manifest, no
\* task-listing query, no submission, no poll, no attempt.
C6_UnknownEndpointFailsFast ==
    \A p \in Procs : (IsTransfer(p) /\ UnknownEndpoint(p)) =>
        /\ pc[p] = "raised" /\ err[p] = "ValueError" /\ result[p] = "none"
        /\ MkstempName(p) \notin FileNames
        /\ batch[p] = NoBatch /\ uuids[p] = <<>>
        /\ Footprint(p) = <<0, 0, 0, 0, "none">>
        /\ tasks = <<>>

\* C6 witness: known source, unknown destination, no manifest supplied
C6_Witness ==
    \E p \in Procs :
        /\ IsTransfer(p) /\ pc[p] = "raised"
        /\ args[p].src_ep \in DOMAIN endpoints
        /\ args[p].dst_ep \notin DOMAIN endpoints
        /\ args[p].batch_file = NoBatch

\* every lookup made so far gave what the table says
LookupsFollowTable ==
    /\ \A i \in 1..Len(resolveLog) :
          LET e == resolveLog[i]
          IN  IF e.name \in DOMAIN endpoints
              THEN e.out = [ok |-> TRUE, val |-> endpoints[e.name]]
              ELSE e.out = [ok |-> FALSE, val |-> "ValueError"]
    /\ \A i, j \in 1..Len(resolveLog) :
          resolveLog[i].name = resolveLog[j].name
              => resolveLog[i].out = resolveLog[j].out
    /\ \A p \in Procs : (IsTransfer(p) /\ uuids[p] # <<>>) =>
          uuids[p] = <<endpoints[args[p].src_ep], endpoints[args[p].dst_ep]>>

\* C7: every get_endpoint_uuid(name) call returned the UUID the table maps
\* name to, or raised ValueError when name is not in the table (never a
\* value); calls with the same name gave the same outcome; transfer uses the
\* mapped UUIDs; and no step changes the table.
C7_Resolve == []LookupsFollowTable /\ [][endpoints' = endpoints]_vars

\* C7 witness: a known name resolved twice and an unknown name refused
C7_Witness ==
    /\ Len(resolveLog) = 3
    /\ resolveLog[1] = [name |-> "site-a", out |-> [ok |-> TRUE, val |-> "uuid-1111"]]
    /\ resolveLog[2] = [name |-> "site-c", out |-> [ok |-> FALSE, val |-> "ValueError"]]
    /\ resolveLog[3] = resolveLog[1]

\* the manifest transfer() wrote for caller p
ManifestWrites(p) == WritesOf(MkstempName(p))

\* C9: a transfer() without a manifest that got past the endpoint lookups
\* wrote its manifest once; the file has min(len(src_paths), len(dst_paths))
\* lines, line i being src_paths[i], a space, dst_paths[i]; the call went on
\* to the retry loop (no error for unequal lengths).
C9_Manifest ==
    \A p \in Procs :
        (IsTransfer(p) /\ ~UnknownEndpoint(p) /\ args[p].batch_file = NoBatch) =>
            /\ Cardinality(ManifestWrites(p)) = 1
            /\ LET i == CHOOSE x \in ManifestWrites(p) : TRUE
                   lines == SplitLines(writeLog[i].content, <<>>)
                   src == args[p].src_paths
                   dst == args[p].dst_paths
               IN  /\ Len(lines) = Min(Len(src), Len(dst))
                   /\ \A n \in 1..Len(lines) : lines[n] = <<src[n], " ", dst[n]>>
            /\ batch[p] = MkstempName(p)
            /\ err[p] # "ValueError"

\* C9 witness: two sources, one destination: a one-line manifest
C9_Witness ==
    \E p \in Procs :
        /\ IsTransfer(p) /\ args[p].batch_file = NoBatch
        /\ Len(args[p].src_paths) = 2 /\ Len(args[p].dst_paths) = 1
        /\ \E i \in ManifestWrites(p) :
              writeLog[i].content = <<"/x/f1.nc", " ", "/y/f1.nc", "\n">>

\* the submission a step adds to caller p's record
Submits(p) == Len(submitted'[p]) = Len(submitted[p]) + 1
NewSubmission(p) == submitted'[p][Len(submitted'[p])]

\* C10: a transfer_async whose command exits non-zero, or prints something
\* that is not JSON with a task_id, raises and writes nothing; an accepted one
\* returns the task id the service assigned and, in the same call, writes
\* that one file {task_id}.json and nothing else.
C10_Submission ==
    [][\A p \in Procs : Submits(p) =>
          LET e == NewSubmission(p)
          IN  IF e.resp.rc # 0 \/ e.resp.body # "task"
              THEN /\ IsException(e.ret)
                   /\ pc'[p] = "raised" /\ err'[p] = e.ret
                   /\ writeLog' = writeLog
              ELSE /\ tasks' = Append(tasks, "ACTIVE")
                   /\ e.ret = TaskIds[Len(tasks')]
                   /\ task'[p] = e.ret
                   /\ pc'[p] = "wait"
                   /\ writeLog' = Append(writeLog,
                          [name |-> SnapshotName(e.ret), content |-> <<e.ret>>])
                   /\ Cardinality({i \in 1..Len(writeLog') :
                          writeLog'[i].name = SnapshotName(e.ret)}) = 1]_vars

\* C10 witness: one submission accepted (snapshot t1.json written), the next
\* one answered without a task_id
C10_Witness ==
    \E p \in Procs :
        /\ Len(submitted[p]) = 2
        /\ submitted[p][1].ret = "t1" /\ SnapshotName("t1") \in FileNames
        /\ submitted[p][2].resp.body = "no_task_id"
        /\ Cardinality({i \in 1..Len(writeLog) :
               \E t \in 1..Len(TaskIds) : writeLog[i].name = SnapshotName(TaskIds[t])}) = 1

IsMakedirs(p) == args[p].op = "makedirs"
\* the commands caller p issued in its n-th makedirs call
CommandsOf(p, n, cmd) ==
    {i \in 1..Len(remoteLog) :
        remoteLog[i].by = p /\ remoteLog[i].call = n /\ remoteLog[i].cmd = cmd}
\* no remote command of caller p failed for a reason outside the directory tree
FaultFree(p) ==
    \A i \in 1..Len(remoteLog) : remoteLog[i].by = p => ~remoteLog[i].fault
\* caller p is in, or has ended, the second of two successive makedirs calls
\* on an activated, known endpoint
SecondCall(p) ==
    /\ IsMakedirs(p) /\ ncall[p] = 2
    /\ args[p].endpoint \in DOMAIN endpoints
    /\ activated
    /\ FaultFree(p)

\* C8: in the second of two successive makedirs calls with the same absolute
\* path on an activated endpoint, no create-directory command is issued, no
\* error is raised, and the remote tree at its end is the tree the first call
\* left.
C8_Idempotent ==
    \A p \in Procs : SecondCall(p) =>
        /\ CommandsOf(p, 2, "mkdir") = {}
        /\ pc[p] # "raised"
        /\ pc[p] = "done" => tree = snap[p]

\* the paths whose pathpart has no empty piece: all but '/', '//' and the
\* paths normpath reduces to them ('/.', '/..', '/a/..', '//a', ...)
NoEmptyPiece(p) == \A i \in 1..Len(PathPart(args[p].path)) : PathPart(args[p].path)[i] # <<>>

\* makedirs is idempotent on every absolute path with no empty piece
IdempotentOffRoot ==
    \A p \in Procs : (SecondCall(p) /\ NoEmptyPiece(p)) =>
        /\ CommandsOf(p, 2, "mkdir") = {}
        /\ pc[p] # "raised"
        /\ pc[p] = "done" => tree = snap[p]

\* a second call on '/a/a' has ended after the first created both directories
IdempotentOffRootWitness ==
    \E p \in Procs :
        /\ SecondCall(p) /\ pc[p] = "done"
        /\ args[p].path = <<"/", "a", "/", "a">>
        /\ Cardinality(CommandsOf(p, 1, "mkdir")) = 2

\* the failure snapshots on scratch storage that caller p's waits wrote
OwnFailureSnapshots(p) ==
    {i \in 1..Len(writeLog) : \E j \in 1..Len(waits[p]) :
        /\ writeLog[i].name = FailureName(waits[p][j].task)
        /\ writeLog[i].content = <<waits[p][j].resp.body>>}
ReturnedFalse(p) == IsTransfer(p) /\ pc[p] = "done" /\ result[p] = "False"

\* C11 (as claimed): whenever transfer() has returned False, for any retry
\* limit including 0, scratch storage holds at least one failure snapshot
\* {task_id}.failure.json written by this invocation.
C11_SnapshotOnFailure ==
    \A p \in Procs : ReturnedFalse(p) => OwnFailureSnapshots(p) # {}

\* C11 (amended): whenever transfer() has returned False with a retry limit
\* N >= 1, scratch storage holds a failure snapshot of each of the N tasks this
\* invocation waited on; with retry limit 0 it returns False having written
\* no failure snapshot (nor any other file but its manifest).
C11_SnapshotOnFailureAfterAttempt ==
    \A p \in Procs : ReturnedFalse(p) =>
        IF args[p].retry >= 1
        THEN /\ Len(waits[p]) = args[p].retry
             /\ \A j \in 1..Len(waits[p]) :
                   \E i \in OwnFailureSnapshots(p) :
                       writeLog[i].name = FailureName(waits[p][j].task)
        ELSE /\ OwnFailureSnapshots(p) = {}
             /\ \A i \in 1..Len(writeLog) : writeLog[i].name = MkstempName(p)

\* C11 witness: transfer(retry = 2) returned False after an INACTIVE and a
\* FAILED task, and both failure snapshots are on scratch storage
C11_Witness ==
    \E p \in Procs :
        /\ ReturnedFalse(p) /\ args[p].retry = 2
        /\ waits[p][1].resp.body = "INACTIVE" /\ waits[p][2].resp.body = "FAILED"
        /\ Cardinality(OwnFailureSnapshots(p)) = 2

\* C12: the process started from the command line ends with status 0 when
\* transfer() returned True and with status 1 when it returned False.
C12_ExitCode ==
    \A p \in Procs : (exitcode[p] # <<>> /\ pc[p] = "done") =>
        /\ result[p] = "True" => exitcode[p] = <<0>>
        /\ result[p] = "False" => exitcode[p] = <<1>>

\* steps of caller p inside transfer(): a task-listing query of the throttle, a
\* finished wait, the start of a throttle
Queries(p) == pc[p] = "throttle" /\ pc'[p] # "throttle"
Waits(p) == Len(waits'[p]) = Len(waits[p]) + 1
ThrottleStarts(p) == pc'[p] = "throttle" /\ pc[p] \notin {"throttle", "throttle_sleep"}
\* caller p is between attempts: as many submissions and waits as attempts made
BeforeSubmission(p) == Len(submitted[p]) = attempt[p] /\ Len(waits[p]) = attempt[p]

AttemptOrder(p) ==
    /\ ThrottleStarts(p) =>
          /\ pc[p] = "loop" /\ nList'[p] = 0 /\ BeforeSubmission(p)
          /\ attempt[p] >= 1 => waits[p][attempt[p]].ret = "False"
    /\ (pc'[p] = "loop" /\ pc[p] # "loop") =>
          /\ pc[p] \in {"idle", "backoff"}
          /\ pc[p] = "backoff" => attempt'[p] = attempt[p] + 1
    /\ Queries(p) =>
          /\ BeforeSubmission(p)
          /\ pc'[p] \in {"submit", "throttle_sleep", "raised"}
          /\ pc'[p] = "submit" => lastCount'[p] <= DefaultCeiling
          /\ pc'[p] = "throttle_sleep" => lastCount'[p] > DefaultCeiling
    /\ (pc[p] = "throttle_sleep" /\ pc'[p] # pc[p]) => pc'[p] = "throttle"
    /\ Submits(p) =>
          /\ pc[p] = "submit" /\ nList[p] >= 1 /\ lastCount[p] <= DefaultCeiling
          /\ BeforeSubmission(p)
          /\ pc'[p] \in {"wait", "raised"}
    /\ Waits(p) =>
          /\ pc[p] = "wait"
          /\ Len(submitted[p]) = attempt[p] + 1 /\ Len(waits[p]) = attempt[p]
          /\ waits'[p][Len(waits'[p])].ret = "False" => pc'[p] = "backoff"
    /\ (pc[p] = "backoff" /\ pc'[p] # pc[p]) =>
          pc'[p] = "loop" /\ Len(submitted'[p]) = attempt'[p]

\* C13: in every attempt of transfer() the throttle comes first, with ceiling
\* 80: it starts from the loop head with no query made, each of its queries
\* is made before the attempt's submission and lets the caller through only on
\* a count the test against 80 accepts; the submission is made only after a
\* query of the same attempt let the caller through, the wait only after the
\* submission; a wait that returned False is followed by the backoff sleep,
\* and the next throttle starts only after it.
C13_AttemptOrder ==
    [][\A p \in Procs : args'[p].op = "transfer" => AttemptOrder(p)]_vars

\* C13 witness: the second attempt submitted after its own throttle made two
\* queries (the first one found the service above the ceiling)
C13_Witness ==
    \E p \in Procs :
        /\ IsTransfer(p) /\ attempt[p] = 1 /\ Len(submitted[p]) = 2
        /\ nList[p] = 2 /\ waits[p][1].ret = "False"

\* C14: the j-th wait of a transfer() is on the task id its j-th submission
\* returned, the task a caller is about to wait on is the one its latest
\* submission returned, and no task id is awaited twice.
C14_FreshTask ==
    \A p \in Procs : IsTransfer(p) =>
        /\ Len(waits[p]) <= Len(submitted[p])
        /\ \A j \in 1..Len(waits[p]) : waits[p][j].task = submitted[p][j].ret
        /\ \A i, j \in 1..Len(waits[p]) :
              i # j => waits[p][i].task # waits[p][j].task
        /\ pc[p] = "wait" => task[p] = submitted[p][Len(submitted[p])].ret

\* C14 witness: three attempts waited on three different tasks
C14_Witness ==
    \E p \in Procs :
        /\ IsTransfer(p) /\ Len(waits[p]) = 3
        /\ waits[p][1].task = "t1" /\ waits[p][2].task = "t2" /\ waits[p][3].task = "t3"

\* the ls and the mkdir commands of caller p's current makedirs call, in order
LsOf(p) ==
    SelectSeq(remoteLog, LAMBDA e : e.by = p /\ e.call = ncall[p] /\ e.cmd = "ls")
MkdirOf(p) ==
    SelectSeq(remoteLog, LAMBDA e : e.by = p /\ e.call = ncall[p] /\ e.cmd = "mkdir")
MkdirPaths(p) == {MkdirOf(p)[i].path : i \in 1..Len(MkdirOf(p))}
\* the directories caller p's current call created
Created(p) ==
    {RemoteDir(MkdirOf(p)[i].path) : i \in {n \in 1..Len(MkdirOf(p)) : MkdirOf(p)[n].rc = 0}}
\* the k-th prefix of the path makedirs walks (the first is the root), and the
\* remote directories the prefixes name
Prefix(p, k) == PathJoin(SubSeq(pathpart[p], 1, k))
Prefixes(p) == {RemoteDir(Prefix(p, k)) : k \in 1..Len(pathpart[p])}
\* the k-th listing of the walk did not show the segment that follows prefix k
SegmentAbsent(p, k) == pathpart[p][k + 1] \notin LsOf(p)[k].names

\* C15: the k-th listing of a makedirs call is of the k-th prefix of the
\* path, root first; a create-directory command is issued for prefix k+1 if
\* and only if listing k did not show its last segment; and when the call has
\* returned, every segment has been listed, every prefix exists remotely, and
\* the directories created are exactly the prefixes that did not exist when
\* the call started.
C15_Walk ==
    \A p \in Procs : IsMakedirs(p) =>
        /\ \A k \in 1..Len(LsOf(p)) :
              /\ k < Len(pathpart[p])
              /\ LsOf(p)[k].path = Prefix(p, k)
              /\ Prefix(p, k + 1) \in MkdirPaths(p) => SegmentAbsent(p, k)
              /\ (SegmentAbsent(p, k) /\ (k < Len(LsOf(p)) \/ pc[p] = "done"))
                    => Prefix(p, k + 1) \in MkdirPaths(p)
        /\ \A i \in 1..Len(MkdirOf(p)) :
              \E k \in 1..Len(LsOf(p)) : MkdirOf(p)[i].path = Prefix(p, k + 1)
        /\ Len(MkdirOf(p)) <= Len(LsOf(p))
        /\ pc[p] = "done" =>
              /\ Len(LsOf(p)) + 1 = Len(pathpart[p])
              /\ Prefixes(p) \subseteq tree
              /\ Created(p) = Prefixes(p) \ snap[p]
              /\ tree = snap[p] \cup Created(p)

\* C15 witness: makedirs('/a/a') returned when '/a' existed before: two
\* listings, one create-directory command, for '/a/a'
C15_Witness ==
    \E p \in Procs :
        /\ IsMakedirs(p) /\ pc[p] = "done" /\ ncall[p] = 1
        /\ args[p].path = <<"/", "a", "/", "a">>
        /\ snap[p] = {Root, <<"/", "a">>}
        /\ Len(LsOf(p)) = 2
        /\ MkdirPaths(p) = {<<"/", "a", "/", "a">>}
        /\ tree = {Root, <<"/", "a">>, <<"/", "a", "/", "a">>}

\* the command the issuer of command i issued just before it (0 if none)
PrevBy(i) ==
    LET earlier == {j \in 1..(i - 1) : remoteLog[j].by = remoteLog[i].by}
    IN  IF earlier = {} THEN 0 ELSE CHOOSE j \in earlier : \A m \in earlier : m <= j
\* the is-activated commands of caller p's current call that reported "not
\* activated" (exit code 1)
NotActivatedReports(p) ==
    {i \in CommandsOf(p, ncall[p], "is-activated") : remoteLog[i].rc = 1}
LastBy(p) ==
    LET own == {j \in 1..Len(remoteLog) : remoteLog[j].by = p}
    IN  CHOOSE j \in own : \A m \in own : m <= j

\* C16: every ls and every mkdir command comes right after an is-activated
\* command of the same call that reported the endpoint activated; a makedirs
\* call to which the service reported the endpoint not activated has raised
\* the not-activated error (ValueError) on that report, has issued no mkdir
\* command, and has left the remote tree as it was when the call started.
C16_NoMkdirUnlessActivated ==
    /\ \A i \in 1..Len(remoteLog) : remoteLog[i].cmd \in {"ls", "mkdir"} =>
          /\ PrevBy(i) # 0
          /\ remoteLog[PrevBy(i)].cmd = "is-activated"
          /\ remoteLog[PrevBy(i)].rc = 0
          /\ remoteLog[PrevBy(i)].call = remoteLog[i].call
    /\ \A p \in Procs : (IsMakedirs(p) /\ NotActivatedReports(p) # {}) =>
          /\ pc[p] = "raised" /\ err[p] = "ValueError"
          /\ LastBy(p) \in NotActivatedReports(p)
          /\ CommandsOf(p, ncall[p], "mkdir") = {}
          /\ tree = snap[p]

\* C16 witness: makedirs('/a/a') on an endpoint whose activation has expired,
\* '/a' existing: one is-activated command, the error, nothing created
C16_Witness ==
    \E p \in Procs :
        /\ IsMakedirs(p) /\ ncall[p] = 1 /\ pc[p] = "raised" /\ err[p] = "ValueError"
        /\ args[p].path = <<"/", "a", "/", "a">>
        /\ ~activated
        /\ Len(remoteLog) = 1 /\ remoteLog[1].rc = 1
        /\ tree = {Root, <<"/", "a">>}

\* a throttle test of caller p is on the count the service holds at that
\* moment, and a submission rests on the caller's own latest test
FreshCheck(p) ==
    /\ (Queries(p) /\ pc'[p] # "raised") =>
          /\ lastCount'[p] = Backlog + OwnActive
          /\ pc'[p] = "submit" <=> lastCount'[p] <= DefaultCeiling
    /\ Submits(p) => nList[p] >= 1 /\ lastCount[p] <= DefaultCeiling

\* C17: with two transfer() runs interleaved, every test of the throttle uses
\* the count the task-listing query finds at that moment (never a count kept
\* from an earlier test or attempt), and a submission is made on the strength
\* of the caller's own latest test alone; that the count may have grown past
\* the ceiling by then is the witness.
C17_FreshCheck ==
    [][\A p \in Procs : args'[p].op = "transfer" => FreshCheck(p)]_vars

\* C17 witness: the latest submission was accepted although the service
\* already held more ACTIVE tasks than any throttle test lets through: both
\* callers had passed their test before either submitted
C17_Witness ==
    \E p \in Procs :
        /\ nproc = 2 /\ IsTransfer(p) /\ pc[p] = "wait"
        /\ tasks # <<>> /\ task[p] = TaskIds[Len(tasks)]
        /\ tasks[Len(tasks)] = "ACTIVE"
        /\ Backlog + OwnActive > DefaultCeiling + 1

\* two makedirs calls on the same path of an activated, known endpoint
Racing(p, q) ==
    /\ p # q /\ IsMakedirs(p) /\ IsMakedirs(q)
    /\ args[p] = args[q]
    /\ args[p].endpoint \in DOMAIN endpoints
    /\ activated /\ FaultFree(p) /\ FaultFree(q)
Finished(p) == pc[p] \in {"done", "raised"}
\* caller p's call was ended by a create-directory command that failed
CreateFailed(p) ==
    /\ pc[p] = "raised" /\ err[p] = "OSError"
    /\ remoteLog[LastBy(p)].cmd = "mkdir" /\ remoteLog[LastBy(p)].rc # 0

RaceOutcome(p, q) ==
    /\ pc[p] = "raised" => CreateFailed(p)
    /\ ~(pc[p] = "raised" /\ pc[q] = "raised")
    /\ (Finished(p) /\ Finished(q)) => Prefixes(p) \subseteq tree

\* C18: of two makedirs calls on the same absolute path, interleaved command
\* by command, one that raises does so with the creation error of a mkdir
\* that failed, at most one raises, and once both have finished every prefix
\* of the path exists.
C18_Race ==
    \A p, q \in Procs : Racing(p, q) => RaceOutcome(p, q)

\* the same, for the paths whose pathpart has no empty piece
RaceOffRoot ==
    \A p, q \in Procs : (Racing(p, q) /\ NoEmptyPiece(p)) => RaceOutcome(p, q)

\* one of two calls on '/a/a' lost the race for '/a' and raised, the other
\* went on and created '/a/a'
RaceOffRootWitness ==
    \E p, q \in Procs :
        /\ Racing(p, q) /\ args[p].path = <<"/", "a", "/", "a">>
        /\ CreateFailed(p) /\ pc[q] = "done"
        /\ remoteLog[LastBy(p)].path = <<"/", "a">>
        /\ Cardinality(CommandsOf(q, 1, "mkdir")) = 2

\* every transfer() that was called finishes: it returns or raises
Terminates == \A p \in Procs : IsTransfer(p) ~> Finished(p)
AttemptsBounded ==
    \A p \in Procs : IsTransfer(p) =>
        attempt[p] <= args[p].retry /\ Len(submitted[p]) <= args[p].retry
\* the throttle is left only on a count its test accepts, the wait only once
\* the task has ended, or else by an exception: neither gives up after a time
NoTimeout(p) ==
    /\ (pc[p] \in {"throttle", "throttle_sleep"}
          /\ pc'[p] \notin {"throttle", "throttle_sleep"}) =>
            \/ pc'[p] = "raised"
            \/ pc'[p] = "submit" /\ lastCount'[p] <= DefaultCeiling
    /\ (pc[p] = "wait" /\ pc'[p] # "wait") =>
            \/ pc'[p] = "raised"
            \/ tasks[TaskIndex(task[p])] \in Terminal

\* C19: when the backlog drains at every throttle and every accepted task
\* ends, a transfer(retry = N) that was called returns or raises in the end,
\* after at most N attempts; the throttle and the wait are left only when the
\* service lets them (or by an exception), never after a time limit.
C19_Termination ==
    /\ Terminates
    /\ []AttemptsBounded
    /\ [][\A p \in Procs : args'[p].op = "transfer" => NoTimeout(p)]_vars

\* C19 witness: transfer(retry = 3) returned False after three attempts, the
\* last throttle having had to ask twice
C19_Witness ==
    \E p \in Procs :
        /\ ReturnedFalse(p) /\ args[p].retry = 3 /\ attempt[p] = 3
        /\ nList[p] = 2

\* the snapshot writes of the tasks caller p submitted
OwnTaskWrites(p) ==
    {i \in 1..Len(writeLog) : \E j \in 1..Len(submitted[p]) :
        writeLog[i].name \in {SnapshotName(submitted[p][j].ret),
                              FailureName(submitted[p][j].ret)}}
\* the manifest path a transfer() call submits
ManifestPath(p) ==
    IF args[p].batch_file = NoBatch THEN MkstempName(p) ELSE args[p].batch_file

ManifestIsFixed ==
    \A p \in Procs : (IsTransfer(p) /\ ~UnknownEndpoint(p)) =>
        /\ batch[p] = ManifestPath(p)
        /\ \A j \in 1..Len(submitted[p]) :
              /\ submitted[p][j].batch = ManifestPath(p)
              /\ submitted[p][j].src = endpoints[args[p].src_ep]
              /\ submitted[p][j].dst = endpoints[args[p].dst_ep]
        /\ IF args[p].batch_file = NoBatch
           THEN /\ Cardinality(ManifestWrites(p)) = 1
                /\ \A i \in ManifestWrites(p) : \A j \in OwnTaskWrites(p) : i < j
           ELSE /\ ManifestWrites(p) = {}
                /\ WritesOf(args[p].batch_file) = {}

\* a step that writes caller p's manifest is the call itself, before the loop
ManifestWrittenAtCall(p) ==
    (Len(writeLog') > Len(writeLog) /\ writeLog'[Len(writeLog')].name = MkstempName(p))
        => pc[p] = "idle" /\ pc'[p] = "loop" /\ nList'[p] = 0 /\ submitted'[p] = <<>>

\* C20: a transfer() without a manifest writes one manifest file, once, in
\* the call step before the loop, and every attempt submits that path; with a
\* manifest supplied it writes none and every attempt submits the supplied
\* path; in both cases what is submitted is the two UUIDs and that path,
\* whatever src_paths and dst_paths are, and the path never changes.
C20_ManifestFixed ==
    /\ []ManifestIsFixed
    /\ [][\A p \in Procs :
            /\ ManifestWrittenAtCall(p)
            /\ batch[p] # NoBatch => batch'[p] = batch[p]]_vars

\* C20 witness: a transfer() given a manifest and two source paths resubmitted
\* the manifest it was given, and scratch storage holds no manifest
C20_Witness ==
    \E p \in Procs :
        /\ IsTransfer(p) /\ args[p].batch_file = UserBatch
        /\ Len(args[p].src_paths) = 2
        /\ Len(submitted[p]) = 2
        /\ submitted[p][1].batch = UserBatch /\ submitted[p][2].batch = UserBatch
        /\ ManifestWrites(p) = {}

\* the tasks the service accepted from caller p's invocation
OwnTasks(p) ==
    {submitted[p][j].ret : j \in {k \in 1..Len(submitted[p]) : ~IsException(submitted[p][k].ret)}}
\* the wait() calls of caller p that read a terminal status of task id
ObservedTerminal(p, id) ==
    {i \in 1..Len(waits[p]) : waits[p][i].task = id /\ StatusRead(waits[p][i])}
\* the tasks of the invocation no wait() has seen end
Outstanding(p) == {id \in OwnTasks(p) : ObservedTerminal(p, id) = {}}
\* task id was seen by wait(), which returned False, in a terminal status
\* other than SUCCEEDED, and that is the status the service holds
SeenUnsuccessful(p, id) ==
    /\ \E i \in ObservedTerminal(p, id) :
          EndedUnsuccessful(waits[p][i]) /\ waits[p][i].ret = "False"
    /\ tasks[TaskIndex(id)] \in Terminal \ {"SUCCEEDED"}

AtMostOneOutstanding ==
    \A p \in Procs : IsTransfer(p) => Cardinality(Outstanding(p)) <= 1

SubmitsAfterFailureSeen(p) ==
    Submits(p) =>
        /\ Outstanding(p) = {}
        /\ \A j \in 1..Len(submitted[p]) :
              /\ ~IsException(submitted[p][j].ret)
              /\ SeenUnsuccessful(p, submitted[p][j].ret)

\* C21: one transfer() invocation never has two tasks that wait() has not
\* seen end, and it issues a submission only when each task it submitted
\* before was seen by wait() in a terminal status other than SUCCEEDED.
C21_OneOutstanding ==
    /\ []AtMostOneOutstanding
    /\ [][\A p \in Procs : IsTransfer(p) => SubmitsAfterFailureSeen(p)]_vars

\* C21 witness: the first task was seen FAILED, the second one is submitted
\* and still ACTIVE, waited on: one task outstanding
C21_Witness ==
    \E p \in Procs :
        /\ IsTransfer(p) /\ pc[p] = "wait"
        /\ Len(submitted[p]) = 2
        /\ SeenUnsuccessful(p, submitted[p][1].ret)
        /\ tasks[TaskIndex(task[p])] = "ACTIVE"
        /\ Outstanding(p) = {task[p]}

\* the command the issuer of command i issued right after it (0 if none yet)
NextBy(i) ==
    LET later == {j \in (i + 1)..Len(remoteLog) : remoteLog[j].by = remoteLog[i].by}
    IN  IF later = {} THEN 0 ELSE CHOOSE j \in later : \A m \in later : j <= m
\* the ls commands that exited non-zero
FailedListings == {i \in 1..Len(remoteLog) : remoteLog[i].cmd = "ls" /\ remoteLog[i].rc # 0}
\* command j is the create-directory command for the segment that follows
\* the prefix listed by command i
CreatesSegmentOf(j, i) ==
    /\ remoteLog[j].cmd = "mkdir"
    /\ \E k \in 1..(Len(pathpart[remoteLog[i].by]) - 1) :
          /\ remoteLog[i].path = Prefix(remoteLog[i].by, k)
          /\ remoteLog[j].path = Prefix(remoteLog[i].by, k + 1)
\* what follows a failed listing i in its makedirs call: no exception, mkdir
\* is entered for the same segment, and its activation check, once passed,
\* is followed by the create-directory command
MkdirFollows(i) ==
    LET p == remoteLog[i].by
        c == NextBy(i)
        m == NextBy(c)
    IN  IF c = 0
        THEN remoteLog[i].call = ncall[p] =>
                pc[p] = "md_mkdir_check" /\ err[p] = "none" /\ result[p] = "none"
        ELSE remoteLog[c].call = remoteLog[i].call =>
                /\ remoteLog[c].cmd = "is-activated"
                /\ IF m = 0
                   THEN (remoteLog[c].rc = 0 /\ remoteLog[i].call = ncall[p])
                            => pc[p] = "md_mkdir"
                   ELSE (remoteLog[c].rc = 0 /\ remoteLog[m].call = remoteLog[i].call)
                            => CreatesSegmentOf(m, i)

\* C22: a listing command that exits non-zero makes listdir return the empty
\* list, the result it gives for an empty directory, without raising; makedirs
\* then takes the segment as absent and calls mkdir for it, whose
\* create-directory command follows the activation check, whether or not the
\* directory exists.
C22_FailedListing ==
    /\ ListdirResult([rc |-> 1, names |-> {}]) = ListdirResult([rc |-> 0, names |-> {}])
    /\ \A i \in FailedListings : remoteLog[i].names = {} /\ MkdirFollows(i)

\* C22 witness: makedirs('/a') with '/a' existing: the listing of '/' failed,
\* a create-directory command for '/a' was issued, and it failed
C22_Witness ==
    \E p \in Procs : \E i \in FailedListings :
        /\ IsMakedirs(p) /\ remoteLog[i].by = p /\ ncall[p] = 1
        /\ args[p].path = <<"/", "a">>
        /\ <<"/", "a">> \in snap[p]
        /\ remoteLog[i].fault
        /\ NextBy(i) # 0 /\ NextBy(NextBy(i)) # 0
        /\ LET m == NextBy(NextBy(i))
           IN  /\ remoteLog[m].cmd = "mkdir" /\ remoteLog[m].path = <<"/", "a">>
               /\ remoteLog[m].rc # 0 /\ ~remoteLog[m].fault
        /\ pc[p] = "raised" /\ err[p] = "OSError"

IsActivate(p) == args[p].op = "activate"
\* the activation commands caller p issued
ActivateCommands(p) ==
    {i \in 1..Len(remoteLog) : remoteLog[i].by = p /\ remoteLog[i].cmd = "activate"}

\* C23: activate never returns: for an endpoint name missing from the table
\* it raises ValueError without running the command; otherwise it runs the
\* command once, on the endpoint's UUID, and raises OSError on exit code 1 or
\* 2 and ValueError on every other exit code, 0 included.
C23_ActivateNeverReturns ==
    \A p \in Procs : IsActivate(p) =>
        /\ pc[p] \in {"act_cmd", "raised"}
        /\ result[p] = "none"
        /\ IF args[p].endpoint \notin DOMAIN endpoints
           THEN /\ pc[p] = "raised" /\ err[p] = "ValueError"
                /\ ActivateCommands(p) = {}
           ELSE /\ pc[p] = "act_cmd" => ActivateCommands(p) = {} /\ err[p] = "none"
                /\ pc[p] = "raised" =>
                      /\ Cardinality(ActivateCommands(p)) = 1
                      /\ \A i \in ActivateCommands(p) :
                            /\ remoteLog[i].path = <<endpoints[args[p].endpoint]>>
                            /\ err[p] = IF remoteLog[i].rc \in {1, 2}
                                        THEN "OSError" ELSE "ValueError"

\* C23 witness: the activation command exited 0 and activate raised ValueError
C23_Witness ==
    \E p \in Procs :
        /\ IsActivate(p) /\ args[p].endpoint = "site-a"
        /\ pc[p] = "raised" /\ err[p] = "ValueError"
        /\ \E i \in ActivateCommands(p) : remoteLog[i].rc = 0

====
